---- MODULE Spec2Model ----
(***************************************************************************)
(* Fitness-tracker calculation module (src/main.py): the Training class    *)
(* hierarchy (Running, SportsWalking, Swimming), the InfoMessage report,   *)
(* the read_package factory and the driver loop of the __main__ block.     *)
(*                                                                         *)
(* Numbers.  Python evaluates the formulas in binary floating point; the   *)
(* model evaluates them in exact rational arithmetic, a number being the   *)
(* record [n |-> numerator, d |-> denominator] in lowest terms with d > 0. *)
(* The record with d = 0 stands for "the evaluation raised                 *)
(* ZeroDivisionError"; it propagates through every later operation, as an  *)
(* exception propagates through the enclosing expression.                  *)
(*                                                                         *)
(* Names.  The file uses ABC and abstractmethod (lines 31 and 47) without  *)
(* an import statement; the model takes them as bound to abc.ABC and       *)
(* abc.abstractmethod, so that the class statements execute.               *)
(***************************************************************************)
EXTENDS Integers, Sequences, FiniteSets, TLC

VARIABLES
    packages,   \* the driver's list of (workout_type, data) records
    idx,        \* 1-based position of the record the for loop is at
    pc,         \* control point of the running script
    training,   \* the module-level name `training` (a Workout or NoTraining)
    info,       \* main()'s local `info` (an InfoMessage or NoInfo)
    stdout,     \* the lines printed so far
    exc,        \* the uncaught exception that ended the run, or "none"
    classes,    \* the class attributes (per-class constants), by class name
    hist        \* per method, the results returned by the calls made so far

vars == <<packages, idx, pc, training, info, stdout, exc, classes, hist>>

-----------------------------------------------------------------------------
(* Bounds of the model *)

MaxRecords == 3
MaxCalls == 3

-----------------------------------------------------------------------------
(* Exact rational arithmetic standing for Python's float arithmetic *)

Abs(x) == IF x < 0 THEN -x ELSE x

RECURSIVE GCD(_, _)
GCD(a, b) == IF b = 0 THEN a ELSE GCD(b, a % b)

ZeroDiv == [n |-> 0, d |-> 0]

Raised(x) == x.d = 0

Norm(n, d) ==
    LET g == GCD(Abs(n), Abs(d))
        s == IF d < 0 THEN -1 ELSE 1
    IN [n |-> s * (n \div g), d |-> s * (d \div g)]

Num(i) == [n |-> i, d |-> 1]

RMul(a, b) ==
    IF Raised(a) THEN a
    ELSE IF Raised(b) THEN b
    ELSE LET g1 == GCD(Abs(a.n), b.d)
             g2 == GCD(Abs(b.n), a.d)
         IN [n |-> (a.n \div g1) * (b.n \div g2),
             d |-> (a.d \div g2) * (b.d \div g1)]

RDiv(a, b) ==
    IF Raised(a) THEN a
    ELSE IF Raised(b) THEN b
    ELSE IF b.n = 0 THEN ZeroDiv
    ELSE RMul(a, IF b.n < 0 THEN [n |-> -b.d, d |-> -b.n]
                 ELSE [n |-> b.d, d |-> b.n])

RAdd(a, b) ==
    IF Raised(a) THEN a
    ELSE IF Raised(b) THEN b
    ELSE LET l == (a.d \div GCD(a.d, b.d)) * b.d
         IN Norm(a.n * (l \div a.d) + b.n * (l \div b.d), l)

RECURSIVE RPow(_, _)
RPow(a, k) == IF k = 0 THEN Num(1) ELSE RMul(a, RPow(a, k - 1))

(* '{x:.3f}': the number rounded to three decimals (ties to even), given as *)
(* the integer count of thousandths the printed digits spell.              *)
Fmt3(x) ==
    LET m == RMul(x, Num(1000))
        q == m.n \div m.d
        r == m.n % m.d
    IN IF 2 * r < m.d THEN q
       ELSE IF 2 * r > m.d THEN q + 1
       ELSE IF q % 2 = 0 THEN q ELSE q + 1

-----------------------------------------------------------------------------
(* Class attributes and attribute lookup through the class hierarchy *)

InitClasses ==
    [Training |->
        [LEN_STEP |-> Norm(65, 100),
         M_IN_KM |-> Num(1000),
         MINUTES_IN_HOUR |-> Num(60)],
     Running |->
        [CALORIES_MEAN_SPEED_MULTIPLIER |-> Num(18),
         CALORIES_MEAN_SPEED_SHIFT |-> Norm(179, 100)],
     SportsWalking |->
        [coe_ff1 |-> Norm(29, 1000),
         coe_ff2 |-> Norm(35, 1000),
         K |-> 2,
         G |-> Norm(278, 1000),
         L |-> Num(100)],
     Swimming |->
        [LEN_STEP |-> Norm(138, 100),
         COEFF_CALOR1 |-> Norm(11, 10),
         COEFF_CALOR2 |-> Num(2)]]

(* self.NAME: the class of the instance first, then the base class Training *)
Attr(cd, self, name) ==
    IF name \in DOMAIN cd[self.class] THEN cd[self.class][name]
    ELSE cd["Training"][name]

-----------------------------------------------------------------------------
(* Outcomes of a call: a returned value, or an exception raised *)

Return(v) == [exc |-> "none", value |-> v]

Raise(e) == [exc |-> e]

NoTraining == [class |-> "None"]

NoInfo == [training_type |-> "None"]

-----------------------------------------------------------------------------
(* class Training *)

Training_init(cls, action, duration, weight) ==
    [class |-> cls,
     action_times |-> action,
     duration_hour |-> duration,
     weight_kg |-> weight]

(* variant: the step length of the base class for every variant *)
get_distance_baseStep(cd, self) ==
    RDiv(RMul(Num(self.action_times), cd["Training"].LEN_STEP),
         Attr(cd, self, "M_IN_KM"))

get_distance(cd, self) ==
    RDiv(RMul(Num(self.action_times), Attr(cd, self, "LEN_STEP")),
         Attr(cd, self, "M_IN_KM"))

(* variant: a zero duration gives speed 0 instead of a division by zero *)
Training_get_mean_speed_guard(cd, self) ==
    IF self.duration_hour = 0 THEN Num(0)
    ELSE RDiv(get_distance(cd, self), Num(self.duration_hour))

Training_get_mean_speed(cd, self) ==
    RDiv(get_distance(cd, self), Num(self.duration_hour))

(* class Swimming *)

Swimming_init(action, duration, weight, length_pool, count_pool) ==
    [class |-> "Swimming",
     action_times |-> action,
     duration_hour |-> duration,
     weight_kg |-> weight,
     length_pool_meters |-> length_pool,
     count_pool_times |-> count_pool]

Swimming_get_mean_speed(cd, self) ==
    RDiv(RDiv(Num(self.length_pool_meters * self.count_pool_times),
              Attr(cd, self, "M_IN_KM")),
         Num(self.duration_hour))

(* self.get_mean_speed(): the override of Swimming, else the base method *)
get_mean_speed(cd, self) ==
    IF self.class = "Swimming" THEN Swimming_get_mean_speed(cd, self)
    ELSE Training_get_mean_speed(cd, self)

Swimming_get_spent_calories(cd, self) ==
    RMul(RMul(RMul(RAdd(get_mean_speed(cd, self),
                        Attr(cd, self, "COEFF_CALOR1")),
                   Attr(cd, self, "COEFF_CALOR2")),
              Num(self.weight_kg)),
         Num(self.duration_hour))

(* class Running *)

(* variant: the duration left in hours *)
Running_get_spent_calories_hours(cd, self) ==
    RMul(RDiv(RMul(RAdd(RMul(Attr(cd, self, "CALORIES_MEAN_SPEED_MULTIPLIER"),
                             get_mean_speed(cd, self)),
                        Attr(cd, self, "CALORIES_MEAN_SPEED_SHIFT")),
                   Num(self.weight_kg)),
              Attr(cd, self, "M_IN_KM")),
         Num(self.duration_hour))

Running_get_spent_calories(cd, self) ==
    RMul(RDiv(RMul(RAdd(RMul(Attr(cd, self, "CALORIES_MEAN_SPEED_MULTIPLIER"),
                             get_mean_speed(cd, self)),
                        Attr(cd, self, "CALORIES_MEAN_SPEED_SHIFT")),
                   Num(self.weight_kg)),
              Attr(cd, self, "M_IN_KM")),
         RMul(Num(self.duration_hour), Attr(cd, self, "MINUTES_IN_HOUR")))

(* class SportsWalking *)

SportsWalking_init(cd, action, duration, weight, height) ==
    [class |-> "SportsWalking",
     action_times |-> action,
     duration_hour |-> duration,
     weight_kg |-> weight,
     height_cm |-> RDiv(Num(height), cd["SportsWalking"].L)]

SportsWalking_get_spent_calories(cd, self) ==
    LET SPEED_M == RMul(Attr(cd, self, "G"), get_mean_speed(cd, self))
    IN RMul(RAdd(RMul(Attr(cd, self, "coe_ff2"), Num(self.weight_kg)),
                 RMul(RMul(RDiv(RPow(SPEED_M, Attr(cd, self, "K")),
                                self.height_cm),
                           Attr(cd, self, "coe_ff1")),
                      Num(self.weight_kg))),
            RMul(Num(self.duration_hour), Attr(cd, self, "MINUTES_IN_HOUR")))

(* self.get_spent_calories(): the method of the instance's class *)
get_spent_calories(cd, self) ==
    CASE self.class = "Running" -> Running_get_spent_calories(cd, self)
      [] self.class = "SportsWalking" -> SportsWalking_get_spent_calories(cd, self)
      [] self.class = "Swimming" -> Swimming_get_spent_calories(cd, self)

-----------------------------------------------------------------------------
(* class InfoMessage *)

InfoMessage(training_type, duration, distance, speed, calories) ==
    [training_type |-> training_type,
     duration |-> duration,
     distance |-> distance,
     speed |-> speed,
     calories |-> calories]

(* The rendered line: the template's fixed text around the class name and  *)
(* the four numbers, each to three decimals.                               *)
get_message(self) ==
    [training_type |-> self.training_type,
     duration |-> Fmt3(Num(self.duration)),
     distance |-> Fmt3(self.distance),
     speed |-> Fmt3(self.speed),
     calories |-> Fmt3(self.calories)]

(* variant: the duration reported in minutes *)
show_training_info_minutes(cd, self) ==
    LET distance == get_distance(cd, self)
        speed == get_mean_speed(cd, self)
        calories == get_spent_calories(cd, self)
    IN IF Raised(distance) \/ Raised(speed) \/ Raised(calories)
       THEN Raise("ZeroDivisionError")
       ELSE Return(InfoMessage(self.class, self.duration_hour * 60,
                                distance, speed, calories))

(* variant: a quantity that cannot be computed is reported as 0 *)
show_training_info_partial(cd, self) ==
    LET OrZero(x) == IF Raised(x) THEN Num(0) ELSE x
    IN Return(InfoMessage(self.class, self.duration_hour,
                          OrZero(get_distance(cd, self)),
                          OrZero(get_mean_speed(cd, self)),
                          OrZero(get_spent_calories(cd, self))))

(* Training.show_training_info: the arguments are evaluated in order; an   *)
(* exception in one of them leaves the InfoMessage unconstructed.          *)
show_training_info(cd, self) ==
    LET distance == get_distance(cd, self)
        speed == get_mean_speed(cd, self)
        calories == get_spent_calories(cd, self)
    IN IF Raised(distance) \/ Raised(speed) \/ Raised(calories)
       THEN Raise("ZeroDivisionError")
       ELSE Return(InfoMessage(self.class, self.duration_hour,
                                distance, speed, calories))

-----------------------------------------------------------------------------
(* read_package *)

training_data == [SWM |-> "Swimming", RUN |-> "Running", WLK |-> "SportsWalking"]

(* Calling the class with the unpacked data: the elements of data are      *)
(* bound to the parameters of its __init__; a wrong count is a TypeError.  *)
Construct(cd, cls, data) ==
    CASE cls = "Running" ->
            IF Len(data) # 3 THEN Raise("TypeError")
            ELSE Return(Training_init(cls, data[1], data[2], data[3]))
      [] cls = "SportsWalking" ->
            IF Len(data) # 4 THEN Raise("TypeError")
            ELSE Return(SportsWalking_init(cd, data[1], data[2], data[3], data[4]))
      [] cls = "Swimming" ->
            IF Len(data) # 5 THEN Raise("TypeError")
            ELSE Return(Swimming_init(data[1], data[2], data[3], data[4], data[5]))

(* variant: an unknown tag falls back to Running *)
read_package_default(cd, workout_type, data) ==
    Construct(cd, IF workout_type \in DOMAIN training_data
                  THEN training_data[workout_type] ELSE "Running", data)

read_package(cd, workout_type, data) ==
    IF workout_type \notin DOMAIN training_data
    THEN Raise("ValueError")
    ELSE Construct(cd, training_data[workout_type], data)

-----------------------------------------------------------------------------
(* The records the driver's list is drawn from.  The first two are the     *)
(* Swimming and Running records of the source's list; the walking record   *)
(* has 10000 steps where the source's has 9000, whose exact calorie value  *)
(* has a numerator beyond the checker's integers.  The others vary the     *)
(* tag, the number of measurements, the duration and the height.           *)

Record(t, d) == [workout_type |-> t, data |-> d]

Pool ==
    {Record("SWM", <<720, 1, 80, 25, 40>>),
     Record("RUN", <<15000, 1, 75>>),
     Record("WLK", <<10000, 1, 75, 180>>),
     Record("RUN", <<15000, 2, 75>>),
     Record("XXX", <<15000, 1, 75>>),
     Record("RUN", <<15000, 1, 75, 180>>),
     Record("RUN", <<15000, 0, 75>>),
     Record("WLK", <<10000, 0, 75, 180>>),
     Record("SWM", <<720, 0, 80, 25, 40>>),
     Record("WLK", <<10000, 1, 75, 0>>),
     Record("RUN", <<15000, -1, 75>>)}

PackageLists == UNION {[1..n -> Pool] : n \in 0..MaxRecords}

NoCalls ==
    [get_distance |-> <<>>,
     get_mean_speed |-> <<>>,
     get_spent_calories |-> <<>>,
     show_training_info |-> <<>>]

-----------------------------------------------------------------------------
(* The script: for workout_type, data in packages: ... *)

Init ==
    /\ packages \in PackageLists
    /\ idx = 1
    /\ pc = "loop"
    /\ training = NoTraining
    /\ info = NoInfo
    /\ stdout = <<>>
    /\ exc = "none"
    /\ classes = InitClasses
    /\ hist = NoCalls

(* variant: a record the factory fails on is skipped *)
ReadPackage_skip ==
    /\ pc = "loop"
    /\ idx <= Len(packages)
    /\ LET r == read_package(classes, packages[idx].workout_type,
                             packages[idx].data)
       IN IF r.exc = "none"
          THEN /\ training' = r.value
               /\ pc' = "main"
               /\ idx' = idx
          ELSE /\ training' = training
               /\ pc' = "loop"
               /\ idx' = idx + 1
    /\ UNCHANGED <<packages, info, stdout, exc, classes, hist>>

(* variant: constructing a Swimming sets the step length on the base class *)
ReadPackage_sharedStep ==
    /\ pc = "loop"
    /\ idx <= Len(packages)
    /\ LET r == read_package(classes, packages[idx].workout_type,
                             packages[idx].data)
       IN IF r.exc = "none"
          THEN /\ training' = r.value
               /\ pc' = "main"
               /\ exc' = exc
               /\ classes' = IF r.value.class = "Swimming"
                             THEN [classes EXCEPT !.Training.LEN_STEP =
                                       classes.Swimming.LEN_STEP]
                             ELSE classes
          ELSE /\ training' = training
               /\ pc' = "raised"
               /\ exc' = r.exc
               /\ classes' = classes
    /\ UNCHANGED <<packages, idx, info, stdout, hist>>

(* training = read_package(workout_type, data) *)
ReadPackage ==
    /\ pc = "loop"
    /\ idx <= Len(packages)
    /\ LET r == read_package(classes, packages[idx].workout_type,
                             packages[idx].data)
       IN IF r.exc = "none"
          THEN /\ training' = r.value
               /\ pc' = "main"
               /\ exc' = exc
          ELSE /\ training' = training
               /\ pc' = "raised"
               /\ exc' = r.exc
    /\ UNCHANGED <<packages, idx, info, stdout, classes, hist>>

(* main(training), first statement: info = training.show_training_info() *)
MainShow ==
    /\ pc = "main"
    /\ LET r == show_training_info(classes, training)
       IN IF r.exc = "none"
          THEN /\ info' = r.value
               /\ pc' = "print"
               /\ exc' = exc
          ELSE /\ info' = info
               /\ pc' = "raised"
               /\ exc' = r.exc
    /\ UNCHANGED <<packages, idx, training, stdout, classes, hist>>

(* variant: the new line is put before the lines printed so far *)
MainPrint_prepend ==
    /\ pc = "print"
    /\ stdout' = <<get_message(info)>> \o stdout
    /\ info' = NoInfo
    /\ idx' = idx + 1
    /\ pc' = "loop"
    /\ UNCHANGED <<packages, training, exc, classes, hist>>

(* main(training), second statement: print(info.get_message()); main       *)
(* returns and the loop moves to the next record                           *)
MainPrint ==
    /\ pc = "print"
    /\ stdout' = Append(stdout, get_message(info))
    /\ info' = NoInfo
    /\ idx' = idx + 1
    /\ pc' = "loop"
    /\ UNCHANGED <<packages, training, exc, classes, hist>>

(* the list is exhausted: the script ends *)
LoopExit ==
    /\ pc = "loop"
    /\ idx > Len(packages)
    /\ pc' = "done"
    /\ UNCHANGED <<packages, idx, training, info, stdout, exc, classes, hist>>

Next == ReadPackage \/ MainShow \/ MainPrint \/ LoopExit

Spec == Init /\ [][Next]_vars

-----------------------------------------------------------------------------
(* A client of one Workout: it builds the Workout of a record through the  *)
(* factory and then calls its methods in any order, any number of times.   *)

NCalls ==
    Len(hist.get_distance) + Len(hist.get_mean_speed)
    + Len(hist.get_spent_calories) + Len(hist.show_training_info)

InitCalls ==
    /\ packages \in {<<r>> : r \in Pool}
    /\ idx = 1
    /\ pc = "new"
    /\ training = NoTraining
    /\ info = NoInfo
    /\ stdout = <<>>
    /\ exc = "none"
    /\ classes = InitClasses
    /\ hist = NoCalls

NewWorkout ==
    /\ pc = "new"
    /\ LET r == read_package(classes, packages[1].workout_type, packages[1].data)
       IN IF r.exc = "none"
          THEN /\ training' = r.value
               /\ pc' = "calls"
               /\ exc' = exc
          ELSE /\ training' = training
               /\ pc' = "raised"
               /\ exc' = r.exc
    /\ UNCHANGED <<packages, idx, info, stdout, classes, hist>>

CallGetDistance ==
    /\ pc = "calls"
    /\ NCalls < MaxCalls
    /\ hist' = [hist EXCEPT !.get_distance =
                    Append(@, get_distance(classes, training))]
    /\ UNCHANGED <<packages, idx, pc, training, info, stdout, exc, classes>>

(* variant: the method converts the stored duration to minutes in place *)
CallGetMeanSpeed_inPlace ==
    /\ pc = "calls"
    /\ NCalls < MaxCalls
    /\ hist' = [hist EXCEPT !.get_mean_speed =
                    Append(@, get_mean_speed(classes, training))]
    /\ training' = [training EXCEPT !.duration_hour = @ * 60]
    /\ UNCHANGED <<packages, idx, pc, info, stdout, exc, classes>>

CallGetMeanSpeed ==
    /\ pc = "calls"
    /\ NCalls < MaxCalls
    /\ hist' = [hist EXCEPT !.get_mean_speed =
                    Append(@, get_mean_speed(classes, training))]
    /\ UNCHANGED <<packages, idx, pc, training, info, stdout, exc, classes>>

CallGetSpentCalories ==
    /\ pc = "calls"
    /\ NCalls < MaxCalls
    /\ hist' = [hist EXCEPT !.get_spent_calories =
                    Append(@, get_spent_calories(classes, training))]
    /\ UNCHANGED <<packages, idx, pc, training, info, stdout, exc, classes>>

CallShowTrainingInfo ==
    /\ pc = "calls"
    /\ NCalls < MaxCalls
    /\ hist' = [hist EXCEPT !.show_training_info =
                    Append(@, show_training_info(classes, training))]
    /\ UNCHANGED <<packages, idx, pc, training, info, stdout, exc, classes>>

NextCalls ==
    \/ NewWorkout
    \/ CallGetDistance
    \/ CallGetMeanSpeed
    \/ CallGetSpentCalories
    \/ CallShowTrainingInfo

SpecCalls == InitCalls /\ [][NextCalls]_vars

-----------------------------------------------------------------------------
(* Vocabulary of the properties *)

Tags == {"SWM", "RUN", "WLK"}

VariantOf(t) ==
    CASE t = "SWM" -> "Swimming"
      [] t = "RUN" -> "Running"
      [] t = "WLK" -> "SportsWalking"

ArityOf(t) ==
    CASE t = "SWM" -> 5
      [] t = "RUN" -> 3
      [] t = "WLK" -> 4

(* a recognised tag with the number of measurements its variant takes *)
WellFormed(r) ==
    /\ r.workout_type \in Tags
    /\ Len(r.data) = ArityOf(r.workout_type)

(* the data model's valid record: duration > 0, weight > 0, height > 0 *)
Valid(r) ==
    /\ WellFormed(r)
    /\ r.data[2] > 0
    /\ r.data[3] > 0
    /\ r.workout_type = "WLK" => r.data[4] > 0

(* a well-formed record with a zero duration, or a walking one of height 0 *)
InvalidMeasurement(r) ==
    /\ WellFormed(r)
    /\ \/ r.data[2] = 0
       \/ r.workout_type = "WLK" /\ r.data[4] = 0

Cur == packages[idx]

HasCur == idx \in 1..Len(packages)

(* the Workout, the Report and the line of a record taken on its own, with *)
(* the class constants as the class statements set them                    *)
WorkoutOf(r) ==
    LET w == read_package(InitClasses, r.workout_type, r.data)
    IN IF w.exc = "none" THEN w.value ELSE NoTraining

ReportOf(r) ==
    LET w == WorkoutOf(r)
    IN IF w = NoTraining THEN NoInfo
       ELSE LET i == show_training_info(InitClasses, w)
            IN IF i.exc = "none" THEN i.value ELSE NoInfo

LineOf(r) ==
    IF ReportOf(r) = NoInfo THEN NoInfo ELSE get_message(ReportOf(r))

SwmSample == Record("SWM", <<720, 1, 80, 25, 40>>)

RunSample == Record("RUN", <<15000, 1, 75>>)

-----------------------------------------------------------------------------
(* C1.  The factory on the tag.  A call of read_package with a tag outside *)
(* {"SWM","RUN","WLK"} ends in ValueError whatever the measurements are    *)
(* and builds no Workout (the name training keeps what it held); with a    *)
(* tag inside the set the error is never ValueError, the Workout built is  *)
(* of the variant mapped to the tag, and it is built whenever the record   *)
(* has the variant's number of measurements.                               *)
C1_FactoryTag ==
    [][(pc = "loop" /\ HasCur) =>
         IF Cur.workout_type \notin Tags
         THEN /\ pc' = "raised"
              /\ exc' = "ValueError"
              /\ training' = training
         ELSE /\ exc' # "ValueError"
              /\ pc' = "main" => training'.class = VariantOf(Cur.workout_type)
              /\ WellFormed(Cur) =>
                    /\ pc' = "main"
                    /\ training'.class = VariantOf(Cur.workout_type)]_vars

(* the second record has an unknown tag and the factory has raised on it *)
C1_Witness ==
    /\ pc = "raised"
    /\ exc = "ValueError"
    /\ idx = 2
    /\ Cur.workout_type = "XXX"
    /\ training.class = "Swimming"

(* C2.  Over a list of valid records the driver prints one line per        *)
(* record in list order: the i-th line is the report of the i-th record,   *)
(* a record is constructed only when the lines of all records before it    *)
(* are printed, and at the end there are as many lines as records.         *)
C2_OneLinePerRecordInOrder ==
    (\A k \in 1..Len(packages) : Valid(packages[k])) =>
        /\ pc \in {"loop", "main", "print", "done"}
        /\ Len(stdout) = idx - 1
        /\ \A i \in 1..Len(stdout) : stdout[i] = LineOf(packages[i])
        /\ pc \in {"main", "print"} => HasCur /\ training = WorkoutOf(Cur)
        /\ pc \in {"loop", "done"} =>
              training = IF idx = 1 THEN NoTraining
                         ELSE WorkoutOf(packages[idx - 1])
        /\ pc = "done" => Len(stdout) = Len(packages)

(* a run over three valid records of the three variants has ended *)
C2_Witness ==
    /\ pc = "done"
    /\ Len(packages) = 3
    /\ \A k \in 1..3 : Valid(packages[k])
    /\ {packages[k].workout_type : k \in 1..3} = Tags
    /\ Len(stdout) = 3

(* C3.  With an unrecognised tag at position k after k-1 valid records,    *)
(* the run never gets past record k, never ends normally and prints at     *)
(* most k-1 lines; record k is never constructed, and the run stops on     *)
(* ValueError at record k with exactly the lines of records 1..k-1         *)
(* printed, whatever the later records are.                                *)
C3_AbortOnUnknownTag ==
    \A k \in 1..Len(packages) :
        (/\ packages[k].workout_type \notin Tags
         /\ \A j \in 1..(k - 1) : Valid(packages[j])) =>
            /\ idx <= k
            /\ Len(stdout) <= k - 1
            /\ pc # "done"
            /\ idx = k => pc \in {"loop", "raised"}
            /\ pc = "raised" =>
                  /\ exc = "ValueError"
                  /\ idx = k
                  /\ stdout = [i \in 1..(k - 1) |-> LineOf(packages[i])]

(* the run has aborted on the second of three records; the third is valid *)
C3_Witness ==
    /\ pc = "raised"
    /\ exc = "ValueError"
    /\ Len(packages) = 3
    /\ idx = 2
    /\ Valid(packages[1])
    /\ Valid(packages[3])
    /\ Len(stdout) = 1

(* C4 as stated.  The report of the Swimming record (720, 1, 80, 25, 40)  *)
(* has distance 0.468 km to three decimals, mean speed 1.0 km/h and        *)
(* calories 336.0.                                                         *)
C4_Original ==
    (pc = "print" /\ Cur = SwmSample) =>
        /\ Fmt3(info.distance) = 468
        /\ info.speed = Num(1)
        /\ info.calories = Num(336)

(* C4 amended.  The report of the Swimming record (720, 1, 80, 25, 40)    *)
(* has distance 720 * 1.38 / 1000 = 0.9936 km (0.994 to three decimals),   *)
(* mean speed 1.0 km/h and calories 336.0.                                 *)
C4_SwimmingSample ==
    (pc = "print" /\ Cur = SwmSample) =>
        /\ info.distance = Norm(9936, 10000)
        /\ Fmt3(info.distance) = 994
        /\ info.speed = Num(1)
        /\ info.calories = Num(336)

(* the report of the Swimming sample record has been built *)
C4_Witness ==
    /\ pc = "print"
    /\ Cur = SwmSample
    /\ info.training_type = "Swimming"

(* C5 as stated.  The report of the Running record (15000, 1, 75) has      *)
(* distance 9.75 km, mean speed 9.75 km/h and calories 797.006 to three    *)
(* decimals.                                                               *)
C5_Original ==
    (pc = "print" /\ Cur = RunSample) =>
        /\ info.distance = Norm(975, 100)
        /\ info.speed = Norm(975, 100)
        /\ Fmt3(info.calories) = 797006

(* C5 amended.  The report of the Running record (15000, 1, 75) has        *)
(* distance 9.75 km, mean speed 9.75 km/h and calories                     *)
(* (18 * 9.75 + 1.79) * 75 / 1000 * 60 = 797.805.                          *)
C5_RunningSample ==
    (pc = "print" /\ Cur = RunSample) =>
        /\ info.distance = Norm(975, 100)
        /\ info.speed = Norm(975, 100)
        /\ info.calories = Norm(797805, 1000)
        /\ Fmt3(info.calories) = 797805

(* the report of the Running sample record has been built *)
C5_Witness ==
    /\ pc = "print"
    /\ Cur = RunSample
    /\ info.training_type = "Running"

(* C6.  The duration field of the report that show_training_info returns   *)
(* on the Workout built from a record is the record's duration             *)
(* measurement itself, for every variant.                                  *)
C6_DurationRoundTrip ==
    pc = "print" =>
        /\ Cur.workout_type \in Tags
        /\ info.training_type = VariantOf(Cur.workout_type)
        /\ info.duration = Cur.data[2]

(* the report of a two-hour record has been built *)
C6_Witness ==
    /\ pc = "print"
    /\ Cur.data[2] = 2
    /\ info.duration = 2

C8_NoPartialResult ==
    \A k \in 1..Len(packages) :
        InvalidMeasurement(packages[k]) =>
            /\ idx <= k
            /\ Len(stdout) < k
            /\ pc # "done"
            /\ idx = k =>
                  /\ info = NoInfo
                  /\ pc \in {"loop", "main", "raised"}
                  /\ pc = "raised" => exc = "ZeroDivisionError"

(* a walking record of height 0, second in the list, has failed *)
C8_Witness ==
    /\ pc = "raised"
    /\ exc = "ZeroDivisionError"
    /\ idx = 2
    /\ Cur = Record("WLK", <<10000, 1, 75, 0>>)
    /\ training.class = "SportsWalking"
    /\ Len(stdout) = 1

(* C9.  Whatever calls of get_distance, get_mean_speed,                    *)
(* get_spent_calories and show_training_info have been made on a Workout,  *)
(* its fields are those the constructor set, the class constants are       *)
(* unchanged, and all calls of one method have returned the same result.   *)
C9_WorkoutImmutable ==
    pc = "calls" =>
        /\ training = WorkoutOf(packages[1])
        /\ classes = InitClasses
        /\ \A m \in DOMAIN hist :
              \A i, j \in 1..Len(hist[m]) : hist[m][i] = hist[m][j]

(* three calls have been made on a Swimming workout, two of one method *)
C9_Witness ==
    /\ pc = "calls"
    /\ training.class = "Swimming"
    /\ Len(hist.get_mean_speed) = 2
    /\ Len(hist.show_training_info) = 1

(* C10.  The line printed for a record depends on the record alone: it is  *)
(* the line of that record processed on its own, whatever records came     *)
(* before it, so equal records get equal lines; and the class constants    *)
(* stay as the class statements set them.                                  *)
C10_NoStateAcrossRecords ==
    /\ classes = InitClasses
    /\ \A i \in 1..Len(stdout) : stdout[i] = LineOf(packages[i])
    /\ \A i, j \in 1..Len(stdout) :
          packages[i] = packages[j] => stdout[i] = stdout[j]

(* the same Running record printed before and after a Swimming record *)
C10_Witness ==
    /\ Len(stdout) = 3
    /\ packages[1] = RunSample
    /\ packages[2] = SwmSample
    /\ packages[3] = RunSample

====
